---------------------------- MODULE Spec2Model ----------------------------
(***************************************************************************)
(* A model of montyhall.py: the Door class, MontyHallExperiment (its       *)
(* constructor, the weighted sampler get_correct_doors and the parallel    *)
(* driver run_simulations), the trial function experiment() and the two    *)
(* reference strategies.                                                   *)
(*                                                                         *)
(* Probabilities are Python floats in the source.  Here they are exact     *)
(* rationals <<numerator, denominator>> in lowest terms, so "the weights   *)
(* sum to 1 within tolerance" reads "the weights sum to 1": IEEE rounding  *)
(* is not modelled.  None is the pair <<0, 0>>.                            *)
(*                                                                         *)
(* Python lists are sequences; list positions are 1-based here where the   *)
(* source counts from 0.                                                   *)
(***************************************************************************)
EXTENDS Integers, Sequences, FiniteSets, TLC

(***************************************************************************)
(* Bounds of the model.                                                    *)
(***************************************************************************)
\* Door objects the caller creates before constructing an experiment, and
\* the largest number_of_doors argument.
MaxDoors == 3
\* The largest `number` handed to get_correct_doors in Spec.
MaxNumber == 2
MaxExperiments == 2

(***************************************************************************)
(* Exact rationals.                                                        *)
(***************************************************************************)
RECURSIVE GCD(_, _)
GCD(a, b) == IF b = 0 THEN a ELSE GCD(b, a % b)

Abs(x) == IF x < 0 THEN -x ELSE x

\* n/d in lowest terms with a positive denominator (d # 0).
Norm(n, d) ==
    LET g == GCD(Abs(n), Abs(d))
        s == IF d < 0 THEN -1 ELSE 1
    IN  <<(s * n) \div g, (s * d) \div g>>

RAdd(a, b) == Norm(a[1] * b[2] + b[1] * a[2], a[2] * b[2])
RSub(a, b) == Norm(a[1] * b[2] - b[1] * a[2], a[2] * b[2])
RDivInt(a, k) == Norm(a[1], a[2] * k)
RLess(a, b) == a[1] * b[2] < b[1] * a[2]
RLeq(a, b) == a[1] * b[2] <= b[1] * a[2]

Zero == <<0, 1>>
One == <<1, 1>>
\* Python's None, for a probability.
None == <<0, 0>>
\* Python's None, for a label (the labels of the model are naturals).
NoLabel == -1

RECURSIVE RSum(_)
RSum(s) == IF s = <<>> THEN Zero ELSE RAdd(Head(s), RSum(Tail(s)))

Last(s) == s[Len(s)]

Min(S) == CHOOSE x \in S : \A y \in S : x <= y

(***************************************************************************)
(* Inputs.                                                                 *)
(***************************************************************************)
\* The probability arguments of Door(): None, valid weights, and the
\* weights 0, 1, 5/4 and -1/4 that Door.__init__ refuses.
ValidProbs == {<<1, 4>>, <<1, 2>>, <<3, 4>>}
InvalidProbs == {Zero, One, <<5, 4>>, <<-1, 4>>}
ProbInputs == {None} \cup ValidProbs \cup InvalidProbs
\* The label arguments of Door(): None (auto-labelled from DOOR_COUNT) or
\* the explicit label 0, which the first auto-labelled door also gets.
LabelInputs == {NoLabel, 0}
\* Values of random.random(), in [0, 1).
DrawSet == {Zero, <<1, 4>>, <<1, 2>>, <<3, 4>>, <<7, 8>>}

VARIABLES
    DOOR_COUNT,   \* the module global DOOR_COUNT
    heap,         \* the Door objects created so far, [label, probability]
    self_doors,   \* MontyHallExperiment.doors: references (positions in heap)
    init_args,    \* the arguments of the latest MontyHallExperiment(...) call
    experiments,  \* calls of MontyHallExperiment(...) made so far
    pc,           \* where the calling program is
    raised,       \* the exception the latest call raised, or "none"
    number,       \* get_correct_doors: its argument
    cum_weights,  \* get_correct_doors: cum_weights
    rand_no,      \* get_correct_doors: the latest draw
    index,        \* get_correct_doors: the latest index (1-based), 0 if none
    yieldCount,   \* get_correct_doors: doors yielded so far
    doors,        \* experiment(): its doors argument, a list of Door objects
    correct,      \* experiment(): its correct argument, a Door
    strategy,     \* experiment(): its strategy argument, by name
    trial,        \* experiment(): its locals and where it is
    strategyKind, \* run_simulations: what kind of object strategy is
    max_workers,  \* run_simulations: the size of the pool
    rpc,          \* run_simulations: where it is
    buffer,       \* pool.map: the chunk being filled from the sampler
    queue,        \* pool.map: the chunks submitted, in order
    next,         \* line 164: the chunk whose results are awaited
    successes,    \* line 164: successes counted so far
    executed,     \* calls of experiment() made by the workers
    workersStarted, \* the pool has spawned its processes
    ratio         \* the value run_simulations returned

buildVars == <<DOOR_COUNT, heap, self_doors, init_args, experiments>>
samplerVars == <<number, cum_weights, rand_no, index, yieldCount>>
progVars == <<DOOR_COUNT, heap, self_doors, init_args, experiments, pc, raised,
              number, cum_weights, rand_no, index, yieldCount>>
trialVars == <<doors, correct, strategy, trial>>
runVars == <<strategyKind, max_workers, rpc, buffer, queue, next,
             successes, executed, workersStarted, ratio>>
vars == <<progVars, trialVars, runVars>>

(***************************************************************************)
(* class Door                                                              *)
(***************************************************************************)
\* Door.__init__'s assertion 0 < probability < 1.
ProbabilityOk(probability) ==
    probability = None \/ (RLess(Zero, probability) /\ RLess(probability, One))

\* Door.__init__(probability, label) with DOOR_COUNT = count: the exception
\* raised, the new object and the new DOOR_COUNT.
Door__init__(probability, label, count) ==
    IF ~ProbabilityOk(probability)
    THEN [raised |-> "AssertionError", count |-> count,
          door |-> [label |-> NoLabel, probability |-> None]]
    ELSE [raised |-> "none",
          count |-> IF label = NoLabel THEN count + 1 ELSE count,
          door |-> [label |-> IF label = NoLabel THEN count ELSE label,
                    probability |-> probability]]

\* An equality of values: same label and same weight.
DoorEqByValue(d, e) == d.label = e.label /\ d.probability = e.probability

\* Door.__eq__: two doors are equal iff their labels are.
DoorEq(d, e) == d.label = e.label

(***************************************************************************)
(* MontyHallExperiment.__init__                                            *)
(***************************************************************************)
\* number_of_doors=None, the default.
NoCount == -1
\* Before any MontyHallExperiment(...) call.
NoArgs == [doors |-> <<>>, number_of_doors |-> NoCount]

\* Python's truth value of number_of_doors: None and 0 are both false.
Truthy(number_of_doors) == number_of_doors # NoCount /\ number_of_doors # 0

\* The doors [Door(prob) for _ in range(n)] appended to heap h.
RECURSIVE NewDoors(_, _, _, _)
NewDoors(h, count, prob, n) ==
    IF n <= 0 THEN [heap |-> h, count |-> count]
    ELSE NewDoors(Append(h, Door__init__(prob, NoLabel, count).door),
                  Door__init__(prob, NoLabel, count).count, prob, n - 1)

\* sum(d.probability for d in doors if d.probability is not None)
Existing(h, refs) ==
    RSum([i \in 1..Len(refs) |->
            IF h[refs[i]].probability = None THEN Zero
            ELSE h[refs[i]].probability])

\* The share given to each door that has no probability (line 120).
FillShare(existing, number_of_doors) ==
    RDivInt(RSub(One, existing), number_of_doors)

\* A loop that assigns prob to every door of refs, weighted or not.
FillDoorsOverwriting(h, refs, prob) ==
    [i \in 1..Len(h) |->
        IF \E j \in 1..Len(refs) : refs[j] = i
        THEN [h[i] EXCEPT !.probability = prob]
        ELSE h[i]]

\* The loop of lines 122-124 on heap h.
FillDoors(h, refs, prob) ==
    [i \in 1..Len(h) |->
        IF (\E j \in 1..Len(refs) : refs[j] = i) /\ h[i].probability = None
        THEN [h[i] EXCEPT !.probability = prob]
        ELSE h[i]]

\* A constructor that fills the unweighted doors before it checks the sum.
FinishInitFillFirst(h, count, refs, n) ==
    LET existing == Existing(h, refs)
        filled == IF n = 0 THEN h
                  ELSE FillDoors(h, refs, FillShare(existing, n))
    IN
    IF ~RLeq(existing, One)
    THEN [raised |-> "ValueError", heap |-> filled, count |-> count,
          doors |-> <<>>]
    ELSE IF n = 0
    THEN [raised |-> "ZeroDivisionError", heap |-> h, count |-> count,
          doors |-> <<>>]
    ELSE [raised |-> "none", heap |-> filled, count |-> count, doors |-> refs]

\* Lines 115-126, with doors and number_of_doors settled.
FinishInit(h, count, refs, n) ==
    LET existing == Existing(h, refs) IN
    IF ~RLeq(existing, One)
    THEN [raised |-> "ValueError", heap |-> h, count |-> count, doors |-> <<>>]
    ELSE IF n = 0
    THEN [raised |-> "ZeroDivisionError", heap |-> h, count |-> count,
          doors |-> <<>>]
    ELSE [raised |-> "none", heap |-> FillDoors(h, refs, FillShare(existing, n)),
          count |-> count, doors |-> refs]

\* MontyHallExperiment(*refs, number_of_doors=n) on heap h.
MontyHallExperiment__init__(h, count, refs, n) ==
    IF Truthy(n) /\ refs # <<>>
    THEN [raised |-> "ValueError", heap |-> h, count |-> count, doors |-> <<>>]
    ELSE IF Truthy(n)
    THEN IF n >= 1 /\ ~ProbabilityOk(RDivInt(One, n))
         THEN [raised |-> "AssertionError", heap |-> h, count |-> count,
               doors |-> <<>>]
         ELSE LET made == NewDoors(h, count, RDivInt(One, n), n)
                  k == IF n > 0 THEN n ELSE 0
              IN  FinishInit(made.heap, made.count,
                             [i \in 1..k |-> Len(h) + i], n)
    ELSE FinishInit(h, count, refs, Len(refs))

(***************************************************************************)
(* MontyHallExperiment.get_correct_doors                                   *)
(***************************************************************************)
\* list(accumulate(d.probability for d in doors))
Accumulate(probs) == [i \in 1..Len(probs) |-> RSum(SubSeq(probs, 1, i))]

\* The positions i with rand_no < cum_weights[i] (line 141-142).
Below(cw, r) == {i \in 1..Len(cw) : RLess(r, cw[i])}

(***************************************************************************)
(* Spec: a program that creates doors, constructs an experiment and draws  *)
(* correct doors from it.                                                  *)
(***************************************************************************)
\* The program before it has created anything.
ProgInit ==
    /\ DOOR_COUNT = 0
    /\ heap = <<>>
    /\ self_doors = <<>>
    /\ init_args = NoArgs
    /\ experiments = 0
    /\ pc = "setup"
    /\ raised = "none"
    /\ number = 0
    /\ cum_weights = <<>>
    /\ rand_no = Zero
    /\ index = 0
    /\ yieldCount = 0

\* No call of experiment() is in progress.
NoTrial == [door_indices |-> <<>>, selections |-> <<>>, elim |-> 0,
            at |-> "idle", iterations |-> 0, calls |-> 0, success |-> FALSE]

TrialIdle ==
    /\ doors = <<>>
    /\ correct = [label |-> NoLabel, probability |-> None]
    /\ strategy = "none"
    /\ trial = NoTrial

\* No call of run_simulations is in progress.
RunIdle ==
    /\ strategyKind = "function"
    /\ max_workers = 0
    /\ rpc = "idle"
    /\ buffer = <<>>
    /\ queue = <<>>
    /\ next = 0
    /\ successes = 0
    /\ executed = 0
    /\ workersStarted = FALSE
    /\ ratio = None

Init == ProgInit /\ TrialIdle /\ RunIdle

\* Door(probability, label)
NewDoor ==
    /\ pc = "setup"
    /\ Len(heap) < MaxDoors
    /\ \E probability \in ProbInputs, label \in LabelInputs :
         LET r == Door__init__(probability, label, DOOR_COUNT) IN
         /\ raised' = r.raised
         /\ DOOR_COUNT' = r.count
         /\ heap' = IF r.raised = "none" THEN Append(heap, r.door) ELSE heap
    /\ UNCHANGED <<self_doors, init_args, experiments, pc, samplerVars,
                   trialVars, runVars>>

\* MontyHallExperiment(*doors, number_of_doors=n): the doors are all the
\* objects created so far, or none; number_of_doors is None or a count.
\* The program may construct another experiment after the first; it creates
\* at most MaxDoors Door objects in all.
Construct ==
    /\ pc \in {"setup", "constructed", "failed"}
    /\ experiments < MaxExperiments
    /\ \E refs \in {<<>>, [i \in 1..Len(heap) |-> i]},
          n \in {NoCount} \cup 0..MaxDoors :
         LET r == MontyHallExperiment__init__(heap, DOOR_COUNT, refs, n) IN
         /\ Len(r.heap) <= MaxDoors
         /\ init_args' = [doors |-> refs, number_of_doors |-> n]
         /\ experiments' = experiments + 1
         /\ raised' = r.raised
         /\ heap' = r.heap
         /\ DOOR_COUNT' = r.count
         /\ self_doors' = r.doors
         /\ pc' = IF r.raised = "none" THEN "constructed" ELSE "failed"
    /\ UNCHANGED <<samplerVars, trialVars, runVars>>

\* The first next() on get_correct_doors(n): lines 137-138.
SamplerStart ==
    /\ pc = "constructed"
    /\ \E n \in 0..MaxNumber : number' = n
    /\ cum_weights' =
         Accumulate([i \in 1..Len(self_doors) |-> heap[self_doors[i]].probability])
    /\ pc' = "sampling"
    /\ raised' = "none"
    /\ UNCHANGED <<buildVars, rand_no, index, yieldCount, trialVars, runVars>>

\* One pass of the loop of lines 139-143 that yields a door.
SamplerYield ==
    /\ pc = "sampling"
    /\ yieldCount < number
    /\ \E r \in DrawSet :
         /\ Below(cum_weights, r) # {}
         /\ rand_no' = r
         /\ index' = Min(Below(cum_weights, r))
    /\ yieldCount' = yieldCount + 1
    /\ raised' = "none"
    /\ UNCHANGED <<buildVars, pc, number, cum_weights, trialVars, runVars>>

\* One pass of the loop in which min() has nothing to choose from.
SamplerRaise ==
    /\ pc = "sampling"
    /\ yieldCount < number
    /\ \E r \in DrawSet :
         /\ Below(cum_weights, r) = {}
         /\ rand_no' = r
    /\ index' = 0
    /\ raised' = "ValueError"
    /\ pc' = "sampler_raised"
    /\ UNCHANGED <<buildVars, number, cum_weights, yieldCount, trialVars, runVars>>

\* range(number) is exhausted: the generator returns.
SamplerStop ==
    /\ pc = "sampling"
    /\ yieldCount >= number
    /\ pc' = "sampled"
    /\ raised' = "none"
    /\ UNCHANGED <<buildVars, samplerVars, trialVars, runVars>>

Next ==
    \/ NewDoor
    \/ Construct
    \/ SamplerStart
    \/ SamplerYield
    \/ SamplerRaise
    \/ SamplerStop

Spec == Init /\ [][Next]_vars

(***************************************************************************)
(* Properties of construction and of the sampler, under Spec.              *)
(***************************************************************************)
\* An experiment has been constructed.
Constructed == pc \in {"constructed", "sampling", "sampled", "sampler_raised"}

\* The weights of the experiment's doors, in order.
Weights == [i \in 1..Len(self_doors) |-> heap[self_doors[i]].probability]

InOpenUnit(p) == p # None /\ RLess(Zero, p) /\ RLess(p, One)

\* C2: after every successful construction the weights of the experiment's
\* doors sum to 1.
C2_WeightsSumToOne ==
    Constructed => (\A i \in 1..Len(Weights) : Weights[i] # None)
                   /\ RSum(Weights) = One

\* The doors of refs that have no probability in heap h.
Unassigned(h, refs) ==
    {i \in 1..Len(h) : (\E j \in 1..Len(refs) : refs[j] = i)
                       /\ h[i].probability = None}

\* C3: when an experiment is constructed from explicit doors of which
\* k >= 1 have no weight, each of those gets (1 - sum of the given
\* weights) / k and the weighted doors keep their weight.
C3_EqualShareOfRemainder ==
    [][(/\ experiments' = experiments + 1 /\ pc' = "constructed"
        /\ self_doors' # <<>> /\ Len(heap') = Len(heap)
        /\ Unassigned(heap, self_doors') # {})
       => \A i \in 1..Len(heap) :
            heap'[i].probability =
              IF i \in Unassigned(heap, self_doors')
              THEN RDivInt(RSub(One, Existing(heap, self_doors')),
                           Cardinality(Unassigned(heap, self_doors')))
              ELSE heap[i].probability]_vars

\* C4: after every successful construction each door of the experiment has
\* a weight strictly between 0 and 1.
C4_WeightsInOpenInterval ==
    Constructed => \A i \in 1..Len(Weights) : InOpenUnit(Weights[i])

\* C5: every draw selects a door; a draw that no cumulative weight exceeds
\* selects the last door and the sampler does not fail.
C5_DrawAboveFinalSelectsLast ==
    /\ pc # "sampler_raised"
    /\ (pc = "sampling" /\ yieldCount > 0) =>
         index = IF Below(cum_weights, rand_no) = {} THEN Len(self_doors)
                 ELSE Min(Below(cum_weights, rand_no))

\* C6: get_correct_doors(number) yields exactly number doors, each the
\* first door whose cumulative weight is strictly greater than its draw.
C6_ExactlyNumberFirstAbove ==
    /\ pc \in {"sampled", "sampler_raised"} => yieldCount = number
    /\ (pc = "sampling" /\ yieldCount > 0) =>
         /\ index \in 1..Len(self_doors)
         /\ RLess(rand_no, cum_weights[index])
         /\ \A j \in 1..(index - 1) : ~RLess(rand_no, cum_weights[j])

\* The step is a call of MontyHallExperiment(...).
ConstructStep == experiments' = experiments + 1

\* C12: a call of MontyHallExperiment with explicit doors and a door
\* count, whatever the count, raises ValueError and leaves every door as it
\* was.
C12_DoorsAndCountRejected ==
    [][(/\ ConstructStep
        /\ init_args'.doors # <<>>
        /\ init_args'.number_of_doors # NoCount)
       => /\ raised' = "ValueError"
          /\ pc' = "failed"
          /\ heap' = heap]_vars

\* The explicit weights of the latest call's doors sum to more than 1.
Overweight(h, args) == args.doors # <<>> /\ ~RLeq(Existing(h, args.doors), One)

\* C13: a call of MontyHallExperiment with explicit doors whose given
\* weights sum to more than 1 raises ValueError, and leaves every door,
\* the unweighted ones included, as it was.
C13_OverweightRejectedDoorsUnchanged ==
    [][(ConstructStep /\ Overweight(heap, init_args'))
       => /\ raised' = "ValueError"
          /\ pc' = "failed"
          /\ heap' = heap]_vars

\* A call with weights 3/4 and 1/2 and an unweighted door has failed, and
\* the unweighted door is still unweighted.
C13_Witness ==
    /\ pc = "failed"
    /\ raised = "ValueError"
    /\ init_args.number_of_doors = NoCount
    /\ Overweight(heap, init_args)
    /\ Unassigned(heap, init_args.doors) # {}

\* C16 as stated: the weight a door has when Door() returns is the weight it
\* has ever after.
C16_Original ==
    [][\A i \in 1..Len(heap) :
         heap'[i].probability = heap[i].probability]_vars

\* C16: a door's weight, once the door has one, never changes; a door
\* constructed without a weight gets one from the first experiment that is
\* successfully constructed with it, and only then.
C16_WeightNeverReassigned ==
    [][\A i \in 1..Len(heap) :
         /\ heap[i].probability # None
              => heap'[i].probability = heap[i].probability
         /\ heap'[i].probability # heap[i].probability
              => /\ ConstructStep
                 /\ pc' = "constructed"
                 /\ \E j \in 1..Len(self_doors') : self_doors'[j] = i]_vars

\* A second experiment has been constructed from doors of which the first
\* had filled one (3/8 is the share of two doors beside a door of 1/4).
C16_Witness ==
    /\ experiments = 2
    /\ pc = "constructed"
    /\ init_args.doors # <<>>
    /\ \E i \in 1..Len(heap) : heap[i].probability = <<3, 8>>

(***************************************************************************)
(* experiment() and the reference strategies                               *)
(***************************************************************************)
\* Doors of the door sets that trials run on in TrialSpec.
TrialDoors == 4

Range(s) == {s[i] : i \in 1..Len(s)}

\* A loop that would also run with two doors left.
LoopContinuesAtTwo(door_indices) == Len(door_indices) >= 2

\* The loop condition of line 85.
LoopContinues(door_indices) == Len(door_indices) > 2

\* A host that spares only the correct door.
CandidatesSparingOnlyCorrect(ds, c, t) ==
    {i \in Range(t.door_indices) : ~DoorEq(ds[i], c)}

\* A host that spares only the latest selection.
CandidatesSparingOnlySelected(ds, c, t) ==
    {i \in Range(t.door_indices) : ~DoorEq(ds[i], Last(t.selections))}

\* The positions the host may choose from (lines 86-87): those still in
\* door_indices whose door equals neither correct nor selections[-1].
Candidates(ds, c, t) ==
    {i \in Range(t.door_indices) :
        ~(DoorEq(ds[i], c) \/ DoorEq(ds[i], Last(t.selections)))}

\* [doors[i] for i in door_indices]
Remaining(ds, door_indices) ==
    [j \in 1..Len(door_indices) |-> ds[door_indices[j]]]

\* always_swap: temp of line 175.
SwapTemp(remaining, past_selections) ==
    SelectSeq(remaining, LAMBDA d : ~DoorEq(d, Last(past_selections)))

\* A strategy that takes the first remaining door, selected or not.
AlwaysFirstDoor(remaining, past_selections) == {remaining[1]}

\* always_swap(doors, past_selections): the doors it can return; none when
\* temp[0] raises IndexError.
always_swap(remaining, past_selections) ==
    IF SwapTemp(remaining, past_selections) = <<>> THEN {}
    ELSE {SwapTemp(remaining, past_selections)[1]}

\* never_swap(doors, past_selections)
never_swap(remaining, past_selections) == {Last(past_selections)}

\* The strategies of the model: the two of the source and an arbitrary one
\* that may return any door of the door set, eliminated or not.
Strategies == {"always_swap", "never_swap", "arbitrary"}

\* What strategy(remaining, past_selections) can return, on door set ds.
StrategyReturns(name, remaining, past_selections, ds) ==
    CASE name = "always_swap" -> always_swap(remaining, past_selections)
      [] name = "never_swap" -> never_swap(remaining, past_selections)
      [] OTHER -> Range(ds)

\* Lines 83-84, the first selection being ds[pick].
Begun(ds, pick) ==
    [door_indices |-> [i \in 1..Len(ds) |-> i], selections |-> <<ds[pick]>>,
     elim |-> 0, at |-> "loop", iterations |-> 0, calls |-> 0,
     success |-> FALSE]

\* An elimination that leaves door_indices as it was.
EliminatedNothing(t, e) == [t EXCEPT !.elim = e, !.at = "strategy"]

\* Line 88: door_indices.remove(e).
Eliminated(t, e) ==
    [t EXCEPT !.door_indices = SelectSeq(t.door_indices, LAMBDA i : i # e),
              !.elim = e, !.at = "strategy"]

\* Lines 89-91: the strategy returned door d.
Selected(t, d) ==
    [t EXCEPT !.selections = Append(t.selections, d), !.at = "loop",
              !.iterations = t.iterations + 1, !.calls = t.calls + 1]

\* A result that compares the first selection with the correct door.
ReturnedComparingFirst(t, c) ==
    [t EXCEPT !.at = "returned", !.success = DoorEq(t.selections[1], c)]

\* Line 92.
Returned(t, c) ==
    [t EXCEPT !.at = "returned", !.success = DoorEq(Last(t.selections), c)]

\* Every way the rest of a trial in state t can end.
RECURSIVE Completions(_, _, _, _)
Completions(t, ds, name, c) ==
    IF t.at = "loop"
    THEN IF ~LoopContinues(t.door_indices) THEN {Returned(t, c)}
         ELSE IF Candidates(ds, c, t) = {}
         THEN {[t EXCEPT !.at = "host_raised"]}
         ELSE UNION {Completions(Eliminated(t, e), ds, name, c) :
                        e \in Candidates(ds, c, t)}
    ELSE LET rets == StrategyReturns(name, Remaining(ds, t.door_indices),
                                     t.selections, ds)
         IN  IF rets = {}
             THEN {[t EXCEPT !.at = "strategy_raised", !.calls = t.calls + 1]}
             ELSE UNION {Completions(Selected(t, d), ds, name, c) : d \in rets}

\* Every way experiment(ds, name, random.choice, c) can end.
Outcomes(ds, name, c) ==
    UNION {Completions(Begun(ds, pick), ds, name, c) : pick \in 1..Len(ds)}

\* The Door objects Door(**args[1]), Door(**args[2]), ... on a fresh module.
RECURSIVE MakeDoors(_, _, _)
MakeDoors(h, count, args) ==
    IF args = <<>> THEN [heap |-> h, count |-> count]
    ELSE LET r == Door__init__(Head(args).probability, Head(args).label, count)
         IN  MakeDoors(Append(h, r.door), r.count, Tail(args))

\* MontyHallExperiment(Door(**args[1]), ...).doors, as Door objects.
ExperimentDoors(args) ==
    LET made == MakeDoors(<<>>, 0, args)
        r == MontyHallExperiment__init__(made.heap, made.count,
                                         [i \in 1..Len(args) |-> i], NoCount)
    IN  [i \in 1..Len(r.doors) |-> r.heap[r.doors[i]]]

\* The door sets of TrialSpec: experiments of 1..TrialDoors doors without
\* explicit weights, each door auto-labelled or labelled 0.
TrialDoorSets ==
    {ExperimentDoors(args) :
        args \in UNION {[1..n -> [probability : {None}, label : LabelInputs]] :
                          n \in 1..TrialDoors}}

(***************************************************************************)
(* TrialSpec: one call experiment(doors, strategy, random.choice, correct) *)
(***************************************************************************)
\* The correct arguments of TrialSpec: a door of the door set, or a Door
\* constructed apart from it with the label of one and the weight 3/4.
CorrectInputs(ds) ==
    Range(ds) \cup {[label |-> d.label, probability |-> <<3, 4>>] : d \in Range(ds)}

TrialInit ==
    /\ ProgInit
    /\ RunIdle
    /\ doors \in TrialDoorSets
    /\ correct \in CorrectInputs(doors)
    /\ strategy \in Strategies
    /\ trial = NoTrial

\* Lines 83-84: random.choice(doors).
Begin ==
    /\ trial.at = "idle"
    /\ \E pick \in 1..Len(doors) : trial' = Begun(doors, pick)
    /\ UNCHANGED <<progVars, doors, correct, strategy, runVars>>

\* Lines 86-88: the host removes one of the candidates.
HostEliminate ==
    /\ trial.at = "loop"
    /\ LoopContinues(trial.door_indices)
    /\ \E e \in Candidates(doors, correct, trial) :
         trial' = Eliminated(trial, e)
    /\ UNCHANGED <<progVars, doors, correct, strategy, runVars>>

\* Line 86 with no candidate: random.choice([]) raises IndexError.
HostRaise ==
    /\ trial.at = "loop"
    /\ LoopContinues(trial.door_indices)
    /\ Candidates(doors, correct, trial) = {}
    /\ trial' = [trial EXCEPT !.at = "host_raised"]
    /\ UNCHANGED <<progVars, doors, correct, strategy, runVars>>

\* Lines 89-91: the strategy is called and its door appended.
ApplyStrategy ==
    /\ trial.at = "strategy"
    /\ \E d \in StrategyReturns(strategy,
                                Remaining(doors, trial.door_indices),
                                trial.selections, doors) :
         trial' = Selected(trial, d)
    /\ UNCHANGED <<progVars, doors, correct, strategy, runVars>>

\* Lines 89-91: the strategy raises (always_swap's temp[0] on an empty temp).
StrategyRaise ==
    /\ trial.at = "strategy"
    /\ StrategyReturns(strategy, Remaining(doors, trial.door_indices),
                       trial.selections, doors) = {}
    /\ trial' = [trial EXCEPT !.at = "strategy_raised",
                              !.calls = trial.calls + 1]
    /\ UNCHANGED <<progVars, doors, correct, strategy, runVars>>

\* Line 92.
Return ==
    /\ trial.at = "loop"
    /\ ~LoopContinues(trial.door_indices)
    /\ trial' = Returned(trial, correct)
    /\ UNCHANGED <<progVars, doors, correct, strategy, runVars>>

TrialNext ==
    \/ Begin
    \/ HostEliminate
    \/ HostRaise
    \/ ApplyStrategy
    \/ StrategyRaise
    \/ Return

TrialSpec == TrialInit /\ [][TrialNext]_vars

\* The scheduling of a trial: experiment() is straight-line code in one
\* process, so a trial that can take a step takes it.
TrialFairSpec == TrialSpec /\ WF_vars(TrialNext)

(***************************************************************************)
(* StrategySpec: one call strategy(doors, past_selections) of always_swap  *)
(* or never_swap, on any remaining doors and any history.                  *)
(***************************************************************************)
\* The longest list of remaining doors handed to a strategy.
StrategyDoors == 3

StrategyLabels == {0, 1, 2}

\* The doors arguments: 1..StrategyDoors doors of weight 1/4, any labels.
RemainingInputs ==
    UNION {[1..n -> [label : StrategyLabels, probability : {<<1, 4>>}]] :
             n \in 1..StrategyDoors}

\* The past_selections arguments: one or two doors of weight 1/4 or 1/2.
HistoryInputs ==
    UNION {[1..n -> [label : StrategyLabels,
                     probability : {<<1, 4>>, <<1, 2>>}]] : n \in 1..2}

\* experiment() is about to call the strategy (line 89) with argument
\* lists drawn from the inputs.
StrategyInit ==
    /\ ProgInit
    /\ RunIdle
    /\ doors \in RemainingInputs
    /\ correct = doors[1]
    /\ strategy \in {"always_swap", "never_swap"}
    /\ \E h \in HistoryInputs :
         trial = [NoTrial EXCEPT !.door_indices = [i \in 1..Len(doors) |-> i],
                                 !.selections = h, !.at = "strategy"]

StrategyNext ==
    \/ ApplyStrategy
    \/ StrategyRaise

StrategySpec == StrategyInit /\ [][StrategyNext]_vars

(***************************************************************************)
(* Properties of a trial, under TrialSpec and TrialFairSpec.               *)
(***************************************************************************)
UniqueLabels(ds) ==
    \A i, j \in 1..Len(ds) : i # j => ds[i].label # ds[j].label

\* C1: on a door set with unique labels, the door the host has just removed
\* equals neither the correct door nor the latest selection.
C1_HostSparesCorrectAndSelected ==
    (UniqueLabels(doors) /\ trial.at = "strategy") =>
        /\ ~DoorEq(doors[trial.elim], correct)
        /\ ~DoorEq(doors[trial.elim], Last(trial.selections))
        /\ trial.elim \notin Range(trial.door_indices)

\* The host has removed a door for the second time, after an arbitrary
\* strategy chose the selection it had to spare.
C1_Witness ==
    /\ UniqueLabels(doors) /\ trial.at = "strategy"
    /\ strategy = "arbitrary" /\ trial.iterations = 1
    /\ ~DoorEq(Last(trial.selections), trial.selections[1])

\* What C7 says of the trials on a door set satisfying Pre: the count of
\* remaining doors falls by one per elimination, the host always finds a
\* door to remove, and the trial returns after Len(doors) - 2 iterations
\* with two doors left.
CountsDown ==
    /\ trial.at # "host_raised"
    /\ trial.at \in {"loop", "returned"} =>
         /\ Len(trial.door_indices) = Len(doors) - trial.iterations
         /\ Len(trial.door_indices) >= 2
    /\ trial.at = "strategy" =>
         /\ Len(trial.door_indices) = Len(doors) - trial.iterations - 1
         /\ Len(trial.door_indices) >= 2
    /\ trial.at = "returned" =>
         /\ trial.iterations = Len(doors) - 2
         /\ Len(trial.door_indices) = 2

\* C7 as stated: for every door set of size n >= 2 a trial counts down and
\* ends with two doors after n - 2 iterations.
C7_Original == Len(doors) >= 2 => CountsDown

\* C7, amended: for a door set of size n >= 2 with unique labels and a
\* strategy that returns, the trial terminates; the remaining-door count
\* falls by one per iteration, n - 2 iterations occur and two doors remain.
C7_TerminatesAfterNMinus2 ==
    /\ []((Len(doors) >= 2 /\ UniqueLabels(doors)) => CountsDown)
    /\ (Len(doors) >= 2 /\ UniqueLabels(doors)) => <>(trial.at = "returned")

\* A trial on four distinct doors has returned after two iterations.
C7_Witness ==
    /\ Len(doors) = 4 /\ UniqueLabels(doors)
    /\ trial.at = "returned" /\ trial.iterations = 2
    /\ Len(trial.door_indices) = 2

\* C8: on a door set of size 2 a trial makes no elimination and never calls
\* the strategy; its history is the initial pick alone and it succeeds iff
\* that pick equals the correct door.
C8_TwoDoorsNoIteration ==
    (Len(doors) = 2 /\ trial.at # "idle") =>
        /\ trial.at \in {"loop", "returned"}
        /\ trial.iterations = 0 /\ trial.calls = 0 /\ trial.elim = 0
        /\ Len(trial.door_indices) = 2
        /\ Len(trial.selections) = 1
        /\ trial.selections[1] \in Range(doors)
        /\ trial.at = "returned" =>
             (trial.success <=> DoorEq(trial.selections[1], correct))

\* A two-door trial has returned a failure: the pick was the other door.
C8_Witness ==
    /\ Len(doors) = 2 /\ trial.at = "returned" /\ ~trial.success
    /\ ~DoorEq(trial.selections[1], correct)

\* The strategy has been called and has returned or raised.
StrategyCalled ==
    trial.calls >= 1 /\ trial.at \in {"loop", "strategy_raised"}

\* past_selections[-1] as the strategy saw it.
PreviousSelection ==
    IF trial.at = "loop" THEN trial.selections[Len(trial.selections) - 1]
    ELSE Last(trial.selections)

\* The doors argument of the strategy, as a set.
RemainingDoors == Range(Remaining(doors, trial.door_indices))

LastAmongRemaining == \E d \in RemainingDoors : DoorEq(d, PreviousSelection)

\* The strategy returned a remaining door that is not the last selection.
SwapReturned ==
    /\ trial.at = "loop"
    /\ Last(trial.selections) \in RemainingDoors
    /\ ~DoorEq(Last(trial.selections), PreviousSelection)

\* The strategy returned the last selection itself.
KeepReturned ==
    trial.at = "loop" /\ Last(trial.selections) = PreviousSelection

\* C14 as stated: whenever the last selection is among the remaining
\* doors, always_swap returns a remaining door that is not the last
\* selection and never_swap returns the last selection.
C14_Original ==
    (StrategyCalled /\ LastAmongRemaining) =>
        /\ strategy = "always_swap" => SwapReturned
        /\ strategy = "never_swap" => KeepReturned

\* C14, amended: always_swap does so whenever some remaining door is not
\* equal to the last selection (otherwise it raises IndexError); never_swap
\* returns the last selection.
C14_SwapOrKeep ==
    (StrategyCalled /\ LastAmongRemaining) =>
        /\ strategy = "always_swap" =>
             IF \E d \in RemainingDoors : ~DoorEq(d, PreviousSelection)
             THEN SwapReturned
             ELSE trial.at = "strategy_raised"
        /\ strategy = "never_swap" => KeepReturned

\* always_swap has passed over the last selection, the first of three
\* remaining doors, and returned another.
C14_Witness ==
    /\ StrategyCalled /\ strategy = "always_swap" /\ trial.at = "loop"
    /\ Len(doors) = 3
    /\ DoorEq(doors[1], PreviousSelection)

\* C15: doors are equal exactly when their labels are, whatever their
\* weights.  The host never removes a door that has the label of the
\* correct door or of the latest selection, even one whose weight differs
\* from theirs; it finds no door to remove only when every remaining door
\* has one of the two labels; and the trial succeeds exactly when the final
\* selection has the label of the correct door.
C15_EqualityByLabel ==
    /\ trial.at = "strategy" =>
         doors[trial.elim].label
           \notin {correct.label, Last(trial.selections).label}
    /\ trial.at = "host_raised" =>
         \A i \in Range(trial.door_indices) :
            doors[i].label \in {correct.label, Last(trial.selections).label}
    /\ trial.at = "returned" =>
         (trial.success <=> Last(trial.selections).label = correct.label)

\* The host has removed a door although the correct door has the weight
\* of no door in the set, and a trial has succeeded on such a correct door.
C15_Witness ==
    /\ correct \notin Range(doors)
    /\ UniqueLabels(doors)
    /\ Len(doors) = 3
    /\ trial.at = "returned"
    /\ trial.success

\* The three-door configuration, CLASSICAL_MONTY_HALL.
Classical == Len(doors) = 3 /\ UniqueLabels(doors)

\* The (initial pick, correct door) pairs from which every trial with the
\* named strategy, whatever the host removes, returns success.
Wins(name) ==
    {pc2 \in (1..Len(doors)) \X (1..Len(doors)) :
        \A t \in Completions(Begun(doors, pc2[1]), doors, name, doors[pc2[2]]) :
            t.at = "returned" /\ t.success}

\* C17: with three doors a trial with always_swap succeeds iff the initial
\* pick is not the correct door and one with never_swap iff it is; of the
\* 9 (initial pick, correct door) pairs always_swap wins 6, never_swap 3.
C17_SwapWinsTwoThirds ==
    (Classical /\ strategy \in {"always_swap", "never_swap"}) =>
        /\ trial.at \notin {"host_raised", "strategy_raised"}
        /\ trial.at = "returned" =>
             (trial.success <=>
                IF strategy = "always_swap"
                THEN ~DoorEq(trial.selections[1], correct)
                ELSE DoorEq(trial.selections[1], correct))
        /\ Cardinality(Wins("always_swap")) = 6
        /\ Cardinality(Wins("never_swap")) = 3

\* A three-door trial with always_swap has succeeded.
C17_Witness ==
    /\ Classical /\ strategy = "always_swap"
    /\ trial.at = "returned" /\ trial.success
    /\ ~DoorEq(trial.selections[1], correct)

\* C18: at the top of every pass of the loop of a trial with always_swap
\* or never_swap on a door set with unique labels, the correct door and
\* the latest selection are among the remaining doors, and the host has a
\* door to remove whenever more than two remain.
C18_LoopInvariant ==
    (/\ UniqueLabels(doors)
     /\ strategy \in {"always_swap", "never_swap"}
     /\ trial.at = "loop") =>
        /\ \E d \in RemainingDoors : DoorEq(d, correct)
        /\ \E d \in RemainingDoors : DoorEq(d, Last(trial.selections))
        /\ LoopContinues(trial.door_indices) =>
             Candidates(doors, correct, trial) # {}

\* The loop has been passed twice on four doors, with a swap each time.
C18_Witness ==
    /\ UniqueLabels(doors) /\ strategy = "always_swap"
    /\ trial.at = "loop" /\ trial.iterations = 2
    /\ Len(doors) = 4

(***************************************************************************)
(* MontyHallExperiment.run_simulations                                     *)
(***************************************************************************)
\* The largest `number` handed to run_simulations in RunSpec.
MaxTrials == 2
\* The largest max_workers.
MaxWorkers == 2
\* The chunksize of pool.map.  The source passes 1000; the model scales it
\* down so that a batch of MaxTrials trials is cut into several chunks.
ChunkSize == 1

\* The kinds of object a caller can pass as strategy.
StrategyKinds == {"function", "lambda", "closure", "builtin", "callable_object"}

\* inspect.isfunction(strategy): true of every Python function object,
\* whether made by def at module level, by lambda or by a nested def.
IsFunction(kind) == kind \in {"function", "lambda", "closure"}

\* Whether pickle can send the strategy to a worker: functions are pickled
\* by qualified name, which a lambda and a nested function do not have.
Picklable(kind) == kind \in {"function", "builtin", "callable_object"}

\* A result whose history begins with the choices of the first trial of
\* the batch.
MontyHallResultAfterFirst(t, c) ==
    [success |-> t.success, correct |-> c,
     choices |-> IF queue # <<>> /\ queue[1].results # <<>>
                 THEN queue[1].results[1].choices \o t.selections
                 ELSE t.selections]

\* The MontyHallResult of a trial that returned.
MontyHallResult(t, c) ==
    [success |-> t.success, correct |-> c, choices |-> t.selections]

\* self.doors, as the Door objects a worker receives.
SelfDoors == [i \in 1..Len(self_doors) |-> heap[self_doors[i]]]

\* A chunk handed to the pool.  A chunk whose function cannot be pickled
\* never reaches a worker: its future holds the pickling error.
Submitted(items, kind) ==
    [items |-> items, results |-> <<>>,
     state |-> IF Picklable(kind) THEN "pending" ELSE "raised",
     error |-> IF Picklable(kind) THEN "none" ELSE "PicklingError"]

\* The chunks worker processes are running.
RunningChunks(q) == {c \in 1..Len(q) : q[c].state = "running"}

\* The chunks still to be run or running.
Unfinished(q) == {c \in 1..Len(q) : q[c].state \in {"pending", "running"}}

\* sum(1 for r in results if r.success) over one chunk.
RECURSIVE CountSuccess(_)
CountSuccess(rs) ==
    IF rs = <<>> THEN 0
    ELSE (IF Head(rs).success THEN 1 ELSE 0) + CountSuccess(Tail(rs))

(***************************************************************************)
(* RunSpec: one call run_simulations(strategy, number, max_workers) on a   *)
(* constructed experiment.                                                 *)
(***************************************************************************)
\* The arguments of Door() with nothing given.
PlainDoor == [probability |-> None, label |-> NoLabel]

\* The arguments of the doors of RunSpec's experiments: two or three times
\* Door(); two doors of which the first has the explicit weight 1/2 (the
\* weights then sum to less than 1); and three doors of which the last is
\* labelled 0 like the first.
RunDoorArgs ==
    {<<PlainDoor, PlainDoor>>,
     <<[probability |-> <<1, 2>>, label |-> NoLabel], PlainDoor>>,
     <<PlainDoor, PlainDoor, PlainDoor>>,
     <<PlainDoor, PlainDoor, [probability |-> None, label |-> 0]>>}

RunInit ==
    /\ \E args \in RunDoorArgs :
         LET made == MakeDoors(<<>>, 0, args)
             r == MontyHallExperiment__init__(made.heap, made.count,
                                              [i \in 1..Len(args) |-> i],
                                              NoCount)
         IN  /\ r.raised = "none"
             /\ heap = r.heap
             /\ DOOR_COUNT = r.count
             /\ self_doors = r.doors
             /\ init_args = [doors |-> [i \in 1..Len(args) |-> i],
                             number_of_doors |-> NoCount]
    /\ experiments = 1
    /\ pc = "constructed"
    /\ raised = "none"
    /\ number \in 0..MaxTrials
    /\ cum_weights = <<>>
    /\ rand_no = Zero
    /\ index = 0
    /\ yieldCount = 0
    /\ doors = <<>>
    /\ correct = [label |-> NoLabel, probability |-> None]
    /\ trial = NoTrial
    /\ \/ strategyKind = "function" /\ strategy \in {"always_swap", "never_swap"}
       \/ strategyKind \in StrategyKinds \ {"function"} /\ strategy = "never_swap"
    /\ max_workers \in 1..MaxWorkers
    /\ rpc = "idle"
    /\ buffer = <<>>
    /\ queue = <<>>
    /\ next = 0
    /\ successes = 0
    /\ executed = 0
    /\ workersStarted = FALSE
    /\ ratio = None

\* Lines 157-162: the assertion; the partial and the pool are made.  The
\* generator of line 163 computes cum_weights when map first asks it.
RunStart ==
    /\ rpc = "idle"
    /\ IF IsFunction(strategyKind)
       THEN /\ rpc' = "mapping"
            /\ raised' = "none"
            /\ cum_weights' = Accumulate(Weights)
       ELSE /\ rpc' = "raised"
            /\ raised' = "AssertionError"
            /\ UNCHANGED cum_weights
    /\ UNCHANGED <<buildVars, pc, number, rand_no, index, yieldCount,
                   trialVars, strategyKind, max_workers, buffer, queue,
                   next, successes, executed, workersStarted, ratio>>

\* Line 163: map takes one more door from the sampler; a full chunk is
\* submitted, which starts the worker processes.
MapYield ==
    /\ rpc = "mapping"
    /\ yieldCount < number
    /\ \E r \in DrawSet :
         /\ Below(cum_weights, r) # {}
         /\ rand_no' = r
         /\ index' = Min(Below(cum_weights, r))
         /\ LET filled == Append(buffer, SelfDoors[Min(Below(cum_weights, r))])
            IN  IF Len(filled) = ChunkSize
                THEN /\ queue' = Append(queue, Submitted(filled, strategyKind))
                     /\ buffer' = <<>>
                     /\ workersStarted' = TRUE
                ELSE /\ buffer' = filled
                     /\ UNCHANGED <<queue, workersStarted>>
    /\ yieldCount' = yieldCount + 1
    /\ UNCHANGED <<buildVars, pc, raised, number, cum_weights, trialVars,
                   strategyKind, max_workers, rpc, next, successes,
                   executed, ratio>>

\* Line 163: the sampler's min() has nothing to choose from and its
\* ValueError leaves map and the with block; the pool is shut down, which
\* waits for the chunks already submitted.
MapRaise ==
    /\ rpc = "mapping"
    /\ yieldCount < number
    /\ \E r \in DrawSet :
         /\ Below(cum_weights, r) = {}
         /\ rand_no' = r
    /\ index' = 0
    /\ buffer' = <<>>
    /\ raised' = "ValueError"
    /\ rpc' = "shutdown"
    /\ UNCHANGED <<buildVars, pc, number, cum_weights, yieldCount, trialVars,
                   strategyKind, max_workers, queue, next, successes,
                   executed, workersStarted, ratio>>

\* Line 163: the sampler is exhausted; the last, shorter chunk is submitted.
MapEnd ==
    /\ rpc = "mapping"
    /\ yieldCount >= number
    /\ IF buffer # <<>>
       THEN /\ queue' = Append(queue, Submitted(buffer, strategyKind))
            /\ workersStarted' = TRUE
       ELSE UNCHANGED <<queue, workersStarted>>
    /\ buffer' = <<>>
    /\ next' = 1
    /\ rpc' = "collecting"
    /\ UNCHANGED <<progVars, trialVars, strategyKind, max_workers,
                   successes, executed, ratio>>

\* An idle worker process takes the oldest pending chunk.  The processes
\* of the pool are interchangeable: each runs one chunk at a time, so at
\* most max_workers chunks are running.
WorkerTake ==
    /\ Cardinality(RunningChunks(queue)) < max_workers
    /\ \E c \in 1..Len(queue) :
         /\ queue[c].state = "pending"
         /\ \A b \in 1..(c - 1) : queue[b].state # "pending"
         /\ queue' = [queue EXCEPT ![c].state = "running"]
    /\ UNCHANGED <<progVars, trialVars, strategyKind, max_workers, rpc, buffer,
                   next, successes, executed, workersStarted, ratio>>

\* A worker runs experiment() on the next correct door of its chunk.  A
\* trial that raises ends the chunk: its future holds the exception.
WorkerTrial ==
    /\ \E c \in RunningChunks(queue) :
         LET item == queue[c].items[Len(queue[c].results) + 1] IN
         \E o \in Outcomes(SelfDoors, strategy, item) :
            IF o.at = "returned"
            THEN LET rs == Append(queue[c].results, MontyHallResult(o, item))
                 IN  queue' = [queue EXCEPT
                                 ![c].results = rs,
                                 ![c].state = IF Len(rs) = Len(queue[c].items)
                                              THEN "done" ELSE "running"]
            ELSE queue' = [queue EXCEPT ![c].state = "raised",
                                        ![c].error = "IndexError"]
    /\ executed' = executed + 1
    /\ UNCHANGED <<progVars, trialVars, strategyKind, max_workers, rpc, buffer,
                   next, successes, workersStarted, ratio>>

\* A collection that counts the results a failed chunk had before it
\* failed and goes on to the next chunk.
CollectSkippingRaised ==
    /\ rpc = "collecting"
    /\ next <= Len(queue)
    /\ queue[next].state \in {"done", "raised"}
    /\ successes' = successes + CountSuccess(queue[next].results)
    /\ next' = next + 1
    /\ UNCHANGED <<progVars, trialVars, strategyKind, max_workers, rpc, buffer,
                   queue, executed, workersStarted, ratio>>

\* Line 164: the results of the next chunk, in submission order, are counted.
Collect ==
    /\ rpc = "collecting"
    /\ next <= Len(queue)
    /\ queue[next].state = "done"
    /\ successes' = successes + CountSuccess(queue[next].results)
    /\ next' = next + 1
    /\ UNCHANGED <<progVars, trialVars, strategyKind, max_workers, rpc, buffer,
                   queue, executed, workersStarted, ratio>>

\* Line 164: the next chunk's future holds an exception, which map's result
\* iterator re-raises after cancelling the futures not yet running.
CollectRaise ==
    /\ rpc = "collecting"
    /\ next <= Len(queue)
    /\ queue[next].state = "raised"
    /\ raised' = queue[next].error
    /\ queue' = [c \in 1..Len(queue) |->
                    IF queue[c].state = "pending"
                    THEN [queue[c] EXCEPT !.state = "cancelled"]
                    ELSE queue[c]]
    /\ rpc' = "shutdown"
    /\ UNCHANGED <<buildVars, pc, samplerVars, trialVars, strategyKind,
                   max_workers, buffer, next, successes, executed,
                   workersStarted, ratio>>

\* The with block is left on an exception: shutdown has waited for every
\* chunk and the exception reaches the caller.
Shutdown ==
    /\ rpc = "shutdown"
    /\ Unfinished(queue) = {}
    /\ rpc' = "raised"
    /\ UNCHANGED <<progVars, trialVars, strategyKind, max_workers, buffer,
                   queue, next, successes, executed, workersStarted,
                   ratio>>

\* Lines 165-166: every chunk is counted; successes / number.
Finish ==
    /\ rpc = "collecting"
    /\ next > Len(queue)
    /\ IF number = 0
       THEN /\ rpc' = "raised"
            /\ raised' = "ZeroDivisionError"
            /\ UNCHANGED ratio
       ELSE /\ rpc' = "returned"
            /\ ratio' = Norm(successes, number)
            /\ UNCHANGED raised
    /\ UNCHANGED <<buildVars, pc, samplerVars, trialVars, strategyKind,
                   max_workers, buffer, queue, next, successes, executed,
                   workersStarted>>

RunNext ==
    \/ RunStart
    \/ MapYield
    \/ MapRaise
    \/ MapEnd
    \/ WorkerTake
    \/ WorkerTrial
    \/ Collect
    \/ CollectRaise
    \/ Shutdown
    \/ Finish

RunSpec == RunInit /\ [][RunNext]_vars

(***************************************************************************)
(* Properties of run_simulations, under RunSpec.                           *)
(***************************************************************************)
\* run_simulations has returned or raised.
RunEnded == rpc \in {"returned", "raised"}

\* The results of all chunks, in submission order.
RECURSIVE AllResults(_)
AllResults(q) ==
    IF q = <<>> THEN <<>> ELSE Head(q).results \o AllResults(Tail(q))

\* C9: a strategy that is not a plain function (a callable object, a
\* built-in, a lambda, a closure) is refused by the assertion before any
\* worker is started and before any trial is executed.
C9_RejectsAllButPlainFunctions ==
    (strategyKind # "function" /\ rpc # "idle") =>
        /\ rpc = "raised" /\ raised = "AssertionError"
        /\ ~workersStarted /\ queue = <<>> /\ executed = 0

\* C10: run_simulations executes exactly number trials and returns the
\* count of successful trials divided by number, a value in [0, 1].  Stated
\* for a plain function, number >= 1 and a door set with unique labels.
C10_RunsNTrialsReturnsRatio ==
    (/\ RunEnded /\ strategyKind = "function" /\ number >= 1
     /\ UniqueLabels(SelfDoors)) =>
        /\ executed = number
        /\ Len(AllResults(queue)) = number
        /\ rpc = "returned"
        /\ ratio = Norm(CountSuccess(AllResults(queue)), number)
        /\ RLeq(Zero, ratio) /\ RLeq(ratio, One)

\* A trial has raised in a worker.
TrialRaised ==
    \E c \in 1..Len(queue) :
        queue[c].state = "raised" /\ queue[c].error = "IndexError"

\* The sampler has raised while map was drawing the correct doors.
SamplerRaised == raised = "ValueError"

\* C11: once a trial or the sampler has raised, run_simulations does not
\* return: no ratio is computed, the call goes on until it ends, and it ends
\* by raising the exception of a trial or of the sampler to its caller.
C11_ExceptionAbortsBatch ==
    (TrialRaised \/ SamplerRaised) =>
        /\ ratio = None
        /\ rpc \in {"mapping", "collecting", "shutdown", "raised"}
        /\ rpc = "raised" => raised \in {"IndexError", "ValueError"}
        /\ rpc # "raised" => ENABLED RunNext

\* The second trial of a batch raised after the first had returned its
\* result, and the exception has reached the caller.
C11_Witness ==
    /\ TrialRaised
    /\ rpc = "raised" /\ raised = "IndexError"
    /\ \E c \in 1..Len(queue) : queue[c].state = "done"
    /\ ratio = None

\* r is the result of one whole trial on self.doors with correct door
\* r.correct: one initial pick and one selection per pass of the loop.
ResultOfOneTrial(r) ==
    /\ Len(r.choices) = 1 + (IF Len(SelfDoors) > 2 THEN Len(SelfDoors) - 2 ELSE 0)
    /\ \E o \in Outcomes(SelfDoors, strategy, r.correct) :
         o.at = "returned" /\ r.choices = o.selections /\ r.success = o.success

\* C19: no step of run_simulations changes the doors of the experiment, and
\* the history of every trial of the batch is that of one trial begun with
\* an empty history.
C19_DoorsKeptHistoriesFresh ==
    /\ [][heap' = heap /\ self_doors' = self_doors]_vars
    /\ [](\A i \in 1..Len(AllResults(queue)) :
            ResultOfOneTrial(AllResults(queue)[i]))

\* Two trials on three doors have returned different histories.
C19_Witness ==
    /\ Len(SelfDoors) = 3
    /\ Len(AllResults(queue)) = 2
    /\ AllResults(queue)[1].choices # AllResults(queue)[2].choices
    /\ rpc = "returned"

=============================================================================
